---- MODULE Spec2Model ----
(***************************************************************************)
(* Gait feature pipeline of mpower-analysis (src/utils/new_walking_feature *)
(* .py): rotation segmentation, overlay of turn events on the acceleration *)
(* timeline, walking-bout extraction, windowed and unwindowed step-rate    *)
(* estimation and the assembly of the feature record.                      *)
(*                                                                         *)
(* Numbers.  td is an integer number of seconds.  Rotation values are      *)
(* integers; filtered rotation values are fixed-point with butter_a[1]     *)
(* units per 1.0.  "auc" holds 2 * butter_a[1] * AUC and "aucXt" holds     *)
(* 2 * butter_a[1] * aucXt, so the code's literal 2 is AucXtTwo.           *)
(* Step rates are exact rationals; float results are records               *)
(* [k |-> "num", n, d], NaN or Inf as numpy produces them.                 *)
(***************************************************************************)
EXTENDS Integers, Sequences, FiniteSets, TLC

\* ------------------------------------------------------------ bounds
\* largest strike count the heel-strike detector returns
MaxStrikes == 1
\* largest number of windows of a bout in the direct estimator runs
MaxWindows == 5
\* longest series of window rates given to the zero-run filter
MaxSeries == 13

\* ------------------------------------------------- program constants
window_size == 256
step_size == 50
zero_runs_cutoff == 5
sample_rate == 100

\* ------------------------------------------------------------ floats
NaN == [k |-> "nan", n |-> 0, d |-> 1]
Inf == [k |-> "inf", n |-> 0, d |-> 1]

Abs(x) == IF x < 0 THEN -x ELSE x

RECURSIVE GCD(_, _)
GCD(a, b) == IF b = 0 THEN a ELSE GCD(b, a % b)

\* the float n/d, d > 0, in lowest terms
Num(n, d) ==
  LET g == GCD(Abs(n), d)
  IN [k |-> "num", n |-> n \div g, d |-> d \div g]

Zero == Num(0, 1)

IsFinite(v) == v.k = "num"

\* float addition of non-negative values (no -inf arises)
FAdd(a, b) ==
  IF a.k = "nan" \/ b.k = "nan" THEN NaN
  ELSE IF a.k = "inf" \/ b.k = "inf" THEN Inf
  ELSE Num(a.n * b.d + b.n * a.d, a.d * b.d)

\* float divided by a positive integer
FDivInt(a, m) ==
  IF a.k = "num" THEN Num(a.n, a.d * m) ELSE a

\* integer count divided by a numpy float64 duration >= 0: no exception,
\* x/0.0 is inf and 0/0.0 is nan
FloatDiv(c, dur) ==
  IF dur = 0 THEN (IF c = 0 THEN NaN ELSE Inf) ELSE Num(c, dur)

RECURSIVE FSum(_)
FSum(s) == IF s = <<>> THEN Zero ELSE FAdd(Head(s), FSum(Tail(s)))

\* a <= b for finite floats
FLeq(a, b) == a.n * b.d <= b.n * a.d

\* np.mean of an array of floats: nan for the empty array
np_mean(s) == IF Len(s) = 0 THEN NaN ELSE FDivInt(FSum(s), Len(s))

RECURSIVE SumInts(_)
SumInts(s) == IF s = <<>> THEN 0 ELSE Head(s) + SumInts(Tail(s))

RECURSIVE MinInts(_)
MinInts(s) ==
  IF Len(s) = 1 THEN Head(s)
  ELSE LET m == MinInts(Tail(s)) IN IF Head(s) < m THEN Head(s) ELSE m

RECURSIVE MaxInts(_)
MaxInts(s) ==
  IF Len(s) = 1 THEN Head(s)
  ELSE LET m == MaxInts(Tail(s)) IN IF Head(s) > m THEN Head(s) ELSE m

\* iloc[a:b] of a sequence indexed from 0: positions a .. b-1
Slice(s, a, b) == IF b <= a THEN <<>> ELSE SubSeq(s, a + 1, b)

\* ------------------------------------------------- rotation segmenter
\* butter(2, 2 / (0.5 * 100)): numerator and denominator in thousandths
butter_b == <<4, 7, 4>>
butter_a == <<1000, -1823, 837>>

\* the literal 2 of the aucXt comparisons, in the units of "aucXt"
AucXtTwo == 2 * 2 * butter_a[1]

\* lfilter(b, a, data): direct-form difference equation
\*   a0*y[n] = b0*x[n] + b1*x[n-1] + b2*x[n-2] - a1*y[n-1] - a2*y[n-2]
\* with y in fixed point (butter_a[1] units per 1.0)
RECURSIVE lfilter(_, _)
lfilter(x, n) ==
  IF n = 0 THEN <<>>
  ELSE LET y == lfilter(x, n - 1)
           x1 == IF n >= 2 THEN x[n - 1] ELSE 0
           x2 == IF n >= 3 THEN x[n - 2] ELSE 0
           y1 == IF n >= 2 THEN y[n - 1] ELSE 0
           y2 == IF n >= 3 THEN y[n - 2] ELSE 0
       IN Append(y, butter_b[1] * x[n] + butter_b[2] * x1 + butter_b[3] * x2
                    + ((-butter_a[2]) * y1 - butter_a[3] * y2) \div butter_a[1])

butter_lowpass_filter(data) == lfilter(data, Len(data))

Sign(v) == IF v > 0 THEN 1 ELSE IF v < 0 THEN -1 ELSE 0

\* np.where(np.diff(np.sign(array)))[0]: the 0-based indices i with
\* sign(array[i+1]) # sign(array[i]), ascending
RECURSIVE ZcrFrom(_, _)
ZcrFrom(array, i) ==
  IF i + 1 >= Len(array) THEN <<>>
  ELSE IF Sign(array[i + 2]) - Sign(array[i + 1]) # 0
       THEN <<i>> \o ZcrFrom(array, i + 1)
       ELSE ZcrFrom(array, i + 1)

detect_zcr(array) == ZcrFrom(array, 0)

\* sklearn.metrics.auc(x, y) = np.trapz(y, x), times 2 (no halving)
RECURSIVE Trapz2(_, _)
Trapz2(x, y) ==
  IF Len(x) < 2 THEN 0
  ELSE (x[2] - x[1]) * (y[2] + y[1]) + Trapz2(Tail(x), Tail(y))

\* mutant: start moves on only when a TurnEvent is emitted
RECURSIVE RotationLoopNoAdvance(_, _, _, _)
RotationLoopNoAdvance(td, val, zcr, start) ==
  IF zcr = <<>> THEN <<>>
  ELSE LET i == Head(zcr)
           x == Slice(td, start, i + 1)
           y == Slice(val, start, i + 1)
           turn_duration == td[i + 2] - td[start + 1]
           auc == Abs(Trapz2(x, y))
       IN IF Len(y) >= 2
          THEN <<[td |-> x[Len(x)], auc |-> auc,
                  turn_duration |-> turn_duration,
                  aucXt |-> auc * turn_duration]>>
               \o RotationLoopNoAdvance(td, val, Tail(zcr), i + 1)
          ELSE RotationLoopNoAdvance(td, val, Tail(zcr), start)

\* the loop of calculate_rotation over zcr_list (0-based crossing indices)
RECURSIVE RotationLoop(_, _, _, _)
RotationLoop(td, val, zcr, start) ==
  IF zcr = <<>> THEN <<>>
  ELSE LET i == Head(zcr)
           x == Slice(td, start, i + 1)
           y == Slice(val, start, i + 1)
           turn_duration == td[i + 2] - td[start + 1]
           auc == Abs(Trapz2(x, y))
           rest == RotationLoop(td, val, Tail(zcr), i + 1)
       IN IF Len(y) >= 2
          THEN <<[td |-> x[Len(x)], auc |-> auc,
                  turn_duration |-> turn_duration,
                  aucXt |-> auc * turn_duration]>> \o rest
          ELSE rest

\* calculate_rotation on the already filtered column
calculate_rotation(td, filtered) ==
  RotationLoop(td, filtered, detect_zcr(filtered), 0)

\* mutant: the threshold comparison admits equality
RotationOccurencesInclusive(events) ==
  SelectSeq(events, LAMBDA e : e.aucXt >= AucXtTwo)

\* rotation_ts[rotation_ts["aucXt"] > 2]
RotationOccurences(events) ==
  SelectSeq(events, LAMBDA e : e.aucXt > AucXtTwo)

\* ---------------------------------------------- walking-bout segmenter
\* pd.merge(accel_data, rotation_data, on = "td", how = "left"): the rows of
\* the acceleration stream in order, one row per matching event (one row
\* with missing values when no event has that td)
MergeRow(t, events) ==
  LET m == SelectSeq(events, LAMBDA e : e.td = t)
  IN IF m = <<>>
     THEN <<[td |-> t, isna |-> TRUE, aucXt |-> 0, turn_duration |-> 0]>>
     ELSE [j \in 1..Len(m) |->
             [td |-> t, isna |-> FALSE, aucXt |-> m[j].aucXt,
              turn_duration |-> m[j].turn_duration]]

\* the merged rows of the acceleration rows lo..hi (halving keeps the
\* evaluation shallow on long streams)
RECURSIVE MergeRange(_, _, _, _)
MergeRange(accel_td, events, lo, hi) ==
  IF lo > hi THEN <<>>
  ELSE IF lo = hi THEN MergeRow(accel_td[lo], events)
  ELSE LET mid == (lo + hi) \div 2
       IN MergeRange(accel_td, events, lo, mid)
          \o MergeRange(accel_td, events, mid + 1, hi)

MergeLeft(accel_td, events) == MergeRange(accel_td, events, 1, Len(accel_td))

\* mutant: the fill runs forward, a missing row takes the values of the
\* nearest preceding row that has them
BfillForward(rows) ==
  LET known == {j \in 1..Len(rows) : ~rows[j].isna}
  IN [i \in 1..Len(rows) |->
        LET earlier == {j \in known : j <= i}
        IN IF earlier = {} THEN rows[i]
           ELSE LET j == CHOOSE c \in earlier : \A o \in earlier : c >= o
                IN [rows[i] EXCEPT !.isna = FALSE, !.aucXt = rows[j].aucXt,
                                   !.turn_duration = rows[j].turn_duration]]

\* fillna(method = "bfill"): a missing row takes the values of the nearest
\* following row that has them; rows after the last such row stay missing
Bfill(rows) ==
  LET known == {j \in 1..Len(rows) : ~rows[j].isna}
  IN [i \in 1..Len(rows) |->
        LET later == {j \in known : j >= i}
        IN IF later = {} THEN rows[i]
           ELSE LET j == CHOOSE c \in later : \A o \in later : c <= o
                IN [rows[i] EXCEPT !.isna = FALSE, !.aucXt = rows[j].aucXt,
                                   !.turn_duration = rows[j].turn_duration]]

\* fillna(0)
Fillna0(rows) ==
  [i \in 1..Len(rows) |->
     IF rows[i].isna
     THEN [rows[i] EXCEPT !.isna = FALSE, !.aucXt = 0, !.turn_duration = 0]
     ELSE rows[i]]

create_overlay_data(accel_td, events) ==
  Fillna0(Bfill(MergeLeft(accel_td, events)))

\* the comparison data["aucXt"] < 2 of one row
IsWalking(row) == row.aucXt < AucXtTwo

\* np.where(data["aucXt"] < 2)[0]: ascending 0-based row positions
RECURSIVE WhereRange(_, _, _)
WhereRange(rows, lo, hi) ==
  IF lo > hi THEN <<>>
  ELSE IF lo = hi THEN (IF IsWalking(rows[lo]) THEN <<lo - 1>> ELSE <<>>)
  ELSE LET mid == (lo + hi) \div 2
       IN WhereRange(rows, lo, mid) \o WhereRange(rows, mid + 1, hi)

np_where_walking(rows) == WhereRange(rows, 1, Len(rows))

\* mutant: the key adds instead of subtracting
GroupKeySum(p, v) == p + v

\* the groupby key of enumerate element (position p from 0, value v)
GroupKey(p, v) == p - v

\* the positions (from 1) at which itertools.groupby opens a new group: the
\* first element, and every element whose key differs from the previous one
RECURSIVE GroupStarts(_, _, _)
GroupStarts(array, lo, hi) ==
  IF lo > hi THEN <<>>
  ELSE IF lo = hi
       THEN (IF lo = 1 \/ GroupKey(lo - 1, array[lo])
                          # GroupKey(lo - 2, array[lo - 1])
             THEN <<lo>> ELSE <<>>)
  ELSE LET mid == (lo + hi) \div 2
       IN GroupStarts(array, lo, mid) \o GroupStarts(array, mid + 1, hi)

\* groupby(enumerate(array), key): each group runs from its opening element
\* to the element before the next opening
separate_array_sequence(array) ==
  LET starts == GroupStarts(array, 1, Len(array))
  IN [g \in 1..Len(starts) |->
        SubSeq(array, starts[g],
               IF g < Len(starts) THEN starts[g + 1] - 1 ELSE Len(array))]

\* ---------------------------------------------------- zero-run filter
\* zero_runs(array): pad the zero indicator with a 0 at both ends, take the
\* positions where it changes, pair them up as [start, end)
IsZeroPadded(array, i) ==
  IF i = 0 \/ i = Len(array) + 1 THEN 0
  ELSE IF array[i] = Zero THEN 1 ELSE 0

RECURSIVE ChangesFrom(_, _)
ChangesFrom(array, i) ==
  IF i > Len(array) THEN <<>>
  ELSE (IF Abs(IsZeroPadded(array, i + 1) - IsZeroPadded(array, i)) = 1
        THEN <<i>> ELSE <<>>)
       \o ChangesFrom(array, i + 1)

zero_runs(array) ==
  LET w == ChangesFrom(array, 0)
  IN [r \in 1..(Len(w) \div 2) |-> <<w[2 * r - 1], w[2 * r]>>]

\* mutant: a run must be longer than the cutoff
RunExceedsStrict(value, cutoff) == (value[2] - value[1]) > cutoff

\* the runs kept in z_runs_threshold
RunExceeds(value, cutoff) == (value[2] - value[1]) >= cutoff

\* data.loc[~data.index.isin(range(i[0], i[1]))]
DropRange(data, i) ==
  SelectSeq(data, LAMBDA row : ~(row.index >= i[1] /\ row.index < i[2]))

RECURSIVE DropRuns(_, _)
DropRuns(data, runs) ==
  IF runs = <<>> THEN data
  ELSE DropRuns(DropRange(data, Head(runs)), Tail(runs))

\* reset_index(drop = True)
reset_index(data) == [j \in 1..Len(data) |-> [data[j] EXCEPT !.index = j - 1]]

Column(data) == [j \in 1..Len(data) |-> data[j].heel_strikes]

subset_data_non_zero_runs(data, cutoff) ==
  LET z_runs_threshold ==
        SelectSeq(zero_runs(Column(data)), LAMBDA v : RunExceeds(v, cutoff))
  IN reset_index(DropRuns(data, z_runs_threshold))

\* ------------------------------------------------------- step counter
\* heel_strikes / (256 / 100)
StrikeRate(count) == Num(count * sample_rate, window_size)

\* the data frame built from the window loop's lists
WindowFrame(time, heel_strikes) ==
  [j \in 1..Len(time) |->
     [index |-> j - 1, time |-> time[j],
      heel_strikes |-> StrikeRate(heel_strikes[j])]]

\* mutant: the mean is taken without the empty-frame test
WindowedMeanUnguarded(ts) == np_mean(Column(ts))

\* the value returned after the loop
WindowedMean(ts) ==
  IF Len(ts) = 0 THEN Zero ELSE np_mean(Column(ts))

\* ------------------------------------------------------------ inputs
Orientations == {"x", "y"}

\* raw rotation-rate values on the chosen axis: lobes of alternating sign
\* whose filtered signal changes sign where the lobe does
RotVals ==
  { <<>>, <<9>>, <<9, 9>>, <<9, -108>>, <<9, 9, -108>>,
    <<9, -108, -108, 1296>>, <<9, 9, -108, -108, 1296>>,
    <<300, 300, -3600, -3600, 43200>>,
    <<9, 9, -108, 1296, 1296, -15552>>,
    <<9, 9, -108, -108, 1296, 1296, -15552>> }

\* strictly increasing td of the rotation samples (a prefix is used)
RotTdPatterns ==
  { <<0, 1, 2, 3, 4, 5, 6>>, <<0, 4, 5, 6, 7, 8, 9>>,
    <<0, 4, 6, 7, 8, 9, 10>>, <<0, 4, 5, 6, 8, 9, 10>> }

\* lengths of the short acceleration streams
AccelLens == {0, 1, 3, 5, 8, 12}

\* length of the long acceleration stream (bouts with windows)
LongLen == 320

LongRotVals == { <<>>, <<9, 9, -108, -108, 1296, 1296, -15552>> }

Iota(len) == [i \in 1..len |-> i - 1]

MakeFrame(len, val, pattern) ==
  [accel_td |-> Iota(len), accel_zero |-> FALSE,
   rot_td |-> SubSeq(pattern, 1, Len(val)), rot_val |-> val]

Frames ==
  {MakeFrame(len, val, p) : len \in AccelLens, val \in RotVals,
                            p \in RotTdPatterns}
  \cup {MakeFrame(LongLen, val, p) : val \in LongRotVals, p \in RotTdPatterns}

EmptyFrame == MakeFrame(0, <<>>, <<>>)

\* what the heel-strike detector (pdkit) and the variance gate can answer
DetectorOutcomes ==
  {[r |-> "fail", c |-> 0]} \cup {[r |-> "ok", c |-> c] : c \in 0..MaxStrikes}

WindowOutcomes == {[r |-> "lowvar", c |-> 0]} \cup DetectorOutcomes

\* ------------------------------------------------------------- state
VARIABLES
  arg,                 \* pipeline's data argument: "sentinel", "frame",
                       \* "path", "nofile"; "direct" and "series" for the
                       \* runs of the estimator and of the zero-run filter
  orientation,
  frame,               \* the caller's frame, or the content of the file
  pc,
  performed,           \* operations performed by the current call
  rot_column,          \* rotation_ts[orientation] of the local slice
  rotation_ts,         \* the TurnEvents
  rotation_occurences,
  data,                \* the merged timeline
  walking_seqs,
  k,                   \* position of the bout loop in walking_seqs
  n,                   \* len(ts) of the current bout
  bout_lo,             \* first timeline index of the current bout
  jPos, time, heel_strikes,
  ts,                  \* the window frame after zero-run filtering
  wret,                \* value returned by the windowed estimator
  mean_arr_wchunk, mean_arr_no_wchunk,
  result,
  call, first_result,
  oracle,              \* answers the detector has given, by input
  raw, cleaned,        \* clean_accelerometer_data: its argument, its result
  df,                  \* parallel_func_apply: the rows of its df argument
  chunksize, no_of_processors,
  df_split,            \* the chunks, in request order
  next_task,           \* number of task batches handed to workers
  worker,              \* per pool worker: its batch and position in it
  map_values,          \* results collected by pool.map, by chunk number
  completion,          \* chunk numbers in the order their calls finished
  out                  \* the data frame returned

rotVars == <<rot_column, rotation_ts, rotation_occurences>>
segVars == <<data, walking_seqs>>
winVars == <<n, bout_lo, jPos, time, heel_strikes>>
meanVars == <<mean_arr_wchunk, mean_arr_no_wchunk>>
callVars == <<call, first_result>>
inVars == <<arg, orientation>>
cleanVars == <<raw, cleaned>>
batchVars == <<df, chunksize, no_of_processors, df_split, next_task, worker,
               map_values, completion, out>>
auxVars == <<cleanVars, batchVars>>

vars == <<arg, orientation, frame, pc, performed, rot_column, rotation_ts,
          rotation_occurences, data, walking_seqs, k, n, bout_lo, jPos, time,
          heel_strikes, ts, wret, mean_arr_wchunk, mean_arr_no_wchunk,
          result, call, first_result, oracle, raw, cleaned, df, chunksize,
          no_of_processors, df_split, next_task, worker, map_values,
          completion, out>>

NoResult == [kind |-> "none", dict |-> <<>>]
SentinelResult == [kind |-> "#ERROR", dict |-> <<>>]

FeatureKeys ==
  {"wchunk.mean_no_of_steps_per_secs", "no_wchunk.mean_no_of_steps_per_secs",
   "rotation.no_of_turns", "rotation.mean_duration", "rotation.min_duration",
   "rotation.max_duration"}

\* no call of clean_accelerometer_data
CleanIdle == raw = <<>> /\ cleaned = <<>>

\* no call of parallel_func_apply
BatchIdle ==
  /\ df = <<>> /\ chunksize = 1 /\ no_of_processors = 1
  /\ df_split = <<>> /\ next_task = 0 /\ worker = <<>>
  /\ map_values = <<>> /\ completion = <<>> /\ out = <<>>

InitLocals ==
  /\ performed = {}
  /\ rot_column = <<>> /\ rotation_ts = <<>> /\ rotation_occurences = <<>>
  /\ data = <<>> /\ walking_seqs = <<>>
  /\ k = 1 /\ n = 0 /\ bout_lo = 0
  /\ jPos = window_size + 1 /\ time = <<>> /\ heel_strikes = <<>>
  /\ ts = <<>> /\ wret = Zero
  /\ mean_arr_wchunk = <<>> /\ mean_arr_no_wchunk = <<>>
  /\ result = NoResult

Init ==
  /\ orientation \in Orientations
  /\ \/ arg \in {"sentinel", "nofile"} /\ frame = EmptyFrame
     \/ arg \in {"frame", "path"} /\ frame \in Frames
  /\ pc = "start"
  /\ InitLocals
  /\ call = 1 /\ first_result = NoResult
  /\ oracle = <<>>
  /\ CleanIdle /\ BatchIdle

\* ---------------------------------------------------------- pipeline
\* mutant: the sentinel test never succeeds
IsSentinelNever(a) == FALSE

\* data == "#ERROR"
IsSentinel(a) == a = "sentinel"

\* isinstance(data, str): the sentinel and the paths are strings
IsStr(a) == a \in {"sentinel", "path", "nofile"}

\* open(filepath) succeeds only for a path that names a file
FileExists(a) == a = "path"

\* lines 288-296: the sentinel returns at once; a path is opened and
\* cleaned; the frame is split by sensor type
Start ==
  /\ pc = "start"
  /\ IF IsStr(arg) /\ IsSentinel(arg)
     THEN /\ result' = SentinelResult
          /\ pc' = "done"
          /\ UNCHANGED performed
     ELSE IF IsStr(arg) /\ ~FileExists(arg)
     THEN /\ performed' = performed \cup {"open_filepath"}
          /\ pc' = "raised"
          /\ UNCHANGED result
     ELSE /\ performed' = performed \cup
               (IF IsStr(arg)
                THEN {"open_filepath", "clean_accelerometer_data"} ELSE {})
          /\ pc' = "rotate"
          /\ UNCHANGED result
  /\ UNCHANGED auxVars
  /\ UNCHANGED <<inVars, frame, rotVars, segVars, k, winVars, ts, wret,
                 meanVars, callVars, oracle>>

\* mutant: the slice is a view, the assignment reaches the frame
FrameAfterAssignInPlace(f, filtered) == [f EXCEPT !.rot_val = filtered]

\* data[orientation] = ... inside calculate_rotation assigns into
\* rotation_ts, which data[data["sensorType"] == "rotationRate"] made as a
\* copy: the frame the slice was taken from keeps its values
FrameAfterAssign(f, filtered) == f

\* lines 297-299
Rotate ==
  /\ pc = "rotate"
  /\ LET filtered == butter_lowpass_filter(frame.rot_val)
         events == calculate_rotation(frame.rot_td, filtered)
     IN /\ rot_column' = filtered
        /\ frame' = FrameAfterAssign(frame, filtered)
        /\ rotation_ts' = events
        /\ rotation_occurences' = RotationOccurences(events)
  /\ performed' = performed \cup {"calculate_rotation"}
  /\ pc' = "overlay"
  /\ UNCHANGED auxVars
  /\ UNCHANGED <<inVars, segVars, k, winVars, ts, wret, meanVars, result,
                 callVars, oracle>>

\* lines 300-305
Overlay ==
  /\ pc = "overlay"
  /\ LET merged == create_overlay_data(frame.accel_td, rotation_ts)
     IN /\ data' = merged
        /\ walking_seqs' = separate_array_sequence(np_where_walking(merged))
  /\ k' = 1
  /\ mean_arr_wchunk' = <<>> /\ mean_arr_no_wchunk' = <<>>
  /\ performed' = performed \cup {"create_overlay_data",
                                  "separate_array_sequence"}
  /\ pc' = "bout_loop"
  /\ UNCHANGED auxVars
  /\ UNCHANGED <<inVars, frame, rotVars, winVars, ts, wret, result, callVars,
                 oracle>>

\* the answer of the detector for an input: the one it gave before, if any
Consult(key, outcomes) ==
  IF key \in DOMAIN oracle THEN {oracle[key]} ELSE outcomes

\* lines 306-309 and 129-140: data_seqs = data.loc[seqs[0]:seqs[-1]] enters
\* the windowed estimator
BoutStart ==
  /\ pc = "bout_loop"
  /\ k <= Len(walking_seqs)
  /\ LET seqs == walking_seqs[k]
     IN /\ bout_lo' = seqs[1]
        /\ n' = seqs[Len(seqs)] - seqs[1] + 1
  /\ jPos' = window_size + 1
  /\ time' = <<>> /\ heel_strikes' = <<>>
  /\ performed' = performed \cup {"calculate_number_of_steps_per_window"}
  /\ pc' = "window_loop"
  /\ UNCHANGED auxVars
  /\ UNCHANGED <<inVars, frame, rotVars, segVars, k, ts, wret, meanVars,
                 result, callVars, oracle>>

\* mutant: no except branch, a detector failure propagates
WindowTryNoExcept(o) ==
  [raised |-> o.r = "fail", strikes |-> IF o.r = "ok" THEN o.c ELSE 0]

\* lines 151-157: the try block of one window; both the low-variance
\* branch and the except branch record 0, nothing is raised
WindowTry(o) ==
  [raised |-> FALSE, strikes |-> IF o.r = "ok" THEN o.c ELSE 0]

\* the outcomes of one window: a constant-zero axis has filtered variance 0
WindowAnswers(f) ==
  IF f.accel_zero THEN {[r |-> "lowvar", c |-> 0]} ELSE WindowOutcomes

\* mutant: the loop also runs when jPos equals the length
LoopContinuesInclusive(j, len) == j <= len

\* while jPos < len(ts)
LoopContinues(j, len) == j < len

\* lines 141-159: one iteration of the window loop
WindowStep ==
  /\ pc = "window_loop"
  /\ LoopContinues(jPos, n)
  /\ LET jStart == jPos - window_size
         key == <<"window", orientation, bout_lo, jStart>>
     IN \E o \in Consult(key, WindowAnswers(frame)) :
          LET t == WindowTry(o)
          IN /\ oracle' = (key :> o) @@ oracle
             /\ IF t.raised
                THEN /\ pc' = "raised"
                     /\ UNCHANGED <<jPos, time, heel_strikes>>
                ELSE /\ time' = Append(time, jPos)
                     /\ heel_strikes' = Append(heel_strikes, t.strikes)
                     /\ jPos' = jPos + step_size
                     /\ pc' = pc
  /\ UNCHANGED auxVars
  /\ UNCHANGED <<inVars, frame, performed, rotVars, segVars, k, n, bout_lo,
                 ts, wret, meanVars, result, callVars>>

\* lines 161-186: the loop has ended
WindowFinish ==
  /\ pc = "window_loop"
  /\ ~LoopContinues(jPos, n)
  /\ LET kept == subset_data_non_zero_runs(WindowFrame(time, heel_strikes),
                                           zero_runs_cutoff)
     IN /\ ts' = kept
        /\ wret' = WindowedMean(kept)
  /\ pc' = IF arg = "direct" THEN "returned" ELSE "unwindowed"
  /\ UNCHANGED auxVars
  /\ UNCHANGED <<inVars, frame, performed, rotVars, segVars, k, winVars,
                 meanVars, result, callVars, oracle>>

\* the axis of the whole-bout call: data_seqs["y"]
UnwindowedAxis(o) == "y"

\* lines 316-319: a failing call gives 0
UnwindowedTry(o, duration) ==
  [raised |-> FALSE,
   rate |-> IF o.r = "ok" THEN FloatDiv(o.c, duration) ELSE Zero]

\* lines 310-320
Unwindowed ==
  /\ pc = "unwindowed"
  /\ LET seqs == walking_seqs[k]
         lo == seqs[1]
         hi == seqs[Len(seqs)]
         duration == data[hi + 1].td - data[lo + 1].td
         key == <<"bout", UnwindowedAxis(orientation), lo, hi>>
     IN \E o \in Consult(key, DetectorOutcomes) :
          LET t == UnwindowedTry(o, duration)
          IN /\ oracle' = (key :> o) @@ oracle
             /\ mean_arr_wchunk' = Append(mean_arr_wchunk, wret)
             /\ IF t.raised
                THEN /\ pc' = "raised"
                     /\ UNCHANGED <<mean_arr_no_wchunk, k>>
                ELSE /\ mean_arr_no_wchunk' =
                          Append(mean_arr_no_wchunk, t.rate)
                     /\ k' = k + 1
                     /\ pc' = "bout_loop"
  /\ UNCHANGED auxVars
  /\ UNCHANGED <<inVars, frame, performed, rotVars, segVars, winVars, ts,
                 wret, result, callVars>>

Durations(events) == [j \in 1..Len(events) |-> events[j].turn_duration]

\* mutant: the zero-filled block leaves out the minimum and the maximum
RotationBlockPartial(occ) ==
  IF Len(occ) # 0
  THEN ("rotation.no_of_turns" :> Num(Len(occ), 1))
       @@ ("rotation.mean_duration" :>
             Num(SumInts(Durations(occ)), Len(occ)))
       @@ ("rotation.min_duration" :> Num(MinInts(Durations(occ)), 1))
       @@ ("rotation.max_duration" :> Num(MaxInts(Durations(occ)), 1))
  ELSE ("rotation.no_of_turns" :> Zero)
       @@ ("rotation.mean_duration" :> Zero)

\* mutant: no default branch, the statistics of an empty selection are nan
RotationBlockNoDefault(occ) ==
  IF Len(occ) # 0
  THEN ("rotation.no_of_turns" :> Num(Len(occ), 1))
       @@ ("rotation.mean_duration" :>
             Num(SumInts(Durations(occ)), Len(occ)))
       @@ ("rotation.min_duration" :> Num(MinInts(Durations(occ)), 1))
       @@ ("rotation.max_duration" :> Num(MaxInts(Durations(occ)), 1))
  ELSE ("rotation.no_of_turns" :> Zero)
       @@ ("rotation.mean_duration" :> NaN)
       @@ ("rotation.min_duration" :> NaN)
       @@ ("rotation.max_duration" :> NaN)

\* lines 326-335: the rotation block
RotationBlock(occ) ==
  IF Len(occ) # 0
  THEN ("rotation.no_of_turns" :> Num(Len(occ), 1))
       @@ ("rotation.mean_duration" :>
             Num(SumInts(Durations(occ)), Len(occ)))
       @@ ("rotation.min_duration" :> Num(MinInts(Durations(occ)), 1))
       @@ ("rotation.max_duration" :> Num(MaxInts(Durations(occ)), 1))
  ELSE ("rotation.no_of_turns" :> Zero)
       @@ ("rotation.mean_duration" :> Zero)
       @@ ("rotation.min_duration" :> Zero)
       @@ ("rotation.max_duration" :> Zero)

\* lines 321-325: the two step-rate features
StepBlock(wchunk, no_wchunk) ==
  ("wchunk.mean_no_of_steps_per_secs" :> np_mean(wchunk))
  @@ ("no_wchunk.mean_no_of_steps_per_secs" :> np_mean(no_wchunk))

\* lines 321-336
Aggregate ==
  /\ pc = "bout_loop"
  /\ k > Len(walking_seqs)
  /\ result' = [kind |-> "record",
                dict |-> StepBlock(mean_arr_wchunk, mean_arr_no_wchunk)
                         @@ RotationBlock(rotation_occurences)]
  /\ pc' = "done"
  /\ UNCHANGED auxVars
  /\ UNCHANGED <<inVars, frame, performed, rotVars, segVars, k, winVars, ts,
                 wret, meanVars, callVars, oracle>>

\* the caller invokes pipeline again with the same argument
SecondCall ==
  /\ pc = "done"
  /\ call = 1
  /\ call' = 2
  /\ first_result' = result
  /\ pc' = "start"
  /\ performed' = {}
  /\ rot_column' = <<>> /\ rotation_ts' = <<>> /\ rotation_occurences' = <<>>
  /\ data' = <<>> /\ walking_seqs' = <<>>
  /\ k' = 1 /\ n' = 0 /\ bout_lo' = 0
  /\ jPos' = window_size + 1 /\ time' = <<>> /\ heel_strikes' = <<>>
  /\ ts' = <<>> /\ wret' = Zero
  /\ mean_arr_wchunk' = <<>> /\ mean_arr_no_wchunk' = <<>>
  /\ result' = NoResult
  /\ UNCHANGED auxVars
  /\ UNCHANGED <<inVars, frame, oracle>>

Next ==
  \/ Start
  \/ Rotate
  \/ Overlay
  \/ BoutStart
  \/ WindowStep
  \/ WindowFinish
  \/ Unwindowed
  \/ Aggregate
  \/ SecondCall

Spec == Init /\ [][Next]_vars

\* -------------------------------------- direct runs of the estimator
\* length of the constant-zero bout (10 s at 100 Hz)
ZeroBoutLen == 1000

\* bout lengths around every window boundary
DirectLens ==
  {1, 2} \cup {window_size + step_size * m + r : m \in 0..MaxWindows,
                                                 r \in 0..2}

\* calculate_number_of_steps_per_window called on a frame of n samples
InitWindow ==
  /\ orientation \in Orientations
  /\ arg = "direct"
  /\ \/ /\ n \in DirectLens
        /\ frame \in {[EmptyFrame EXCEPT !.accel_zero = z] : z \in BOOLEAN}
     \/ /\ n = ZeroBoutLen
        /\ frame = [EmptyFrame EXCEPT !.accel_zero = TRUE]
  /\ pc = "window_loop"
  /\ performed = {"calculate_number_of_steps_per_window"}
  /\ rot_column = <<>> /\ rotation_ts = <<>> /\ rotation_occurences = <<>>
  /\ data = <<>> /\ walking_seqs = <<>>
  /\ k = 1 /\ bout_lo = 0
  /\ jPos = window_size + 1 /\ time = <<>> /\ heel_strikes = <<>>
  /\ ts = <<>> /\ wret = Zero
  /\ mean_arr_wchunk = <<>> /\ mean_arr_no_wchunk = <<>>
  /\ result = NoResult
  /\ call = 1 /\ first_result = NoResult
  /\ oracle = <<>>
  /\ CleanIdle /\ BatchIdle

NextWindow ==
  \/ WindowStep
  \/ WindowFinish

SpecWindow == InitWindow /\ [][NextWindow]_vars

\* the function runs to its return: every iteration and the code after the
\* loop are executed once enabled
\* the guard of WindowFinish, which changes pc whenever it is taken
FinishEnabled == pc = "window_loop" /\ ~LoopContinues(jPos, n)

\* weak fairness of both steps; WF_vars(WindowFinish) is written out with
\* FinishEnabled for ENABLED <<WindowFinish>>_vars
SpecWindowFair ==
  /\ SpecWindow
  /\ WF_vars(WindowStep)
  /\ ([]<>(~FinishEnabled) \/ []<><<WindowFinish>>_vars)

\* ---------------------------------- direct runs of the zero-run filter
\* strike counts of the windows of a series
SeriesCounts == {0, 1}

\* the lists the window loop leaves after len windows
WindowTimes(len) == [j \in 1..len |-> window_size + 1 + step_size * (j - 1)]

InitZeroRuns ==
  /\ orientation = "y"
  /\ arg = "series"
  /\ frame = EmptyFrame
  /\ \E len \in 0..MaxSeries :
       /\ heel_strikes \in [1..len -> SeriesCounts]
       /\ time = WindowTimes(len)
       /\ jPos = window_size + 1 + step_size * len
  /\ pc = "subset"
  /\ performed = {}
  /\ rot_column = <<>> /\ rotation_ts = <<>> /\ rotation_occurences = <<>>
  /\ data = <<>> /\ walking_seqs = <<>>
  /\ k = 1 /\ n = 0 /\ bout_lo = 0
  /\ ts = <<>> /\ wret = Zero
  /\ mean_arr_wchunk = <<>> /\ mean_arr_no_wchunk = <<>>
  /\ result = NoResult
  /\ call = 1 /\ first_result = NoResult
  /\ oracle = <<>>
  /\ CleanIdle /\ BatchIdle

\* line 172 alone: ts = subset_data_non_zero_runs(ts, zero_runs_cutoff = 5)
SubsetStep ==
  /\ pc = "subset"
  /\ ts' = subset_data_non_zero_runs(WindowFrame(time, heel_strikes),
                                     zero_runs_cutoff)
  /\ pc' = "subset_done"
  /\ UNCHANGED auxVars
  /\ UNCHANGED <<inVars, frame, performed, rotVars, segVars, k, winVars,
                 wret, meanVars, result, callVars, oracle>>

NextZeroRuns == SubsetStep

SpecZeroRuns == InitZeroRuns /\ [][NextZeroRuns]_vars

\* ------------------------------------- clean_accelerometer_data runs
\* most rows of a raw recording
MaxRawRows == 3
\* largest timestamp of a raw row
MaxTimestamp == 2

\* a row of the opened file: its timestamp (possibly missing) and whether
\* one of x, y, z is missing
RawRows ==
  {r \in [timestamp : 0..MaxTimestamp, ts_missing : BOOLEAN,
          xyz_missing : BOOLEAN] : r.ts_missing => r.timestamp = 0}

\* data.dropna(subset = ["x", "y", "z"])
dropna(rows) == SelectSeq(rows, LAMBDA r : ~r.xyz_missing)

\* td of a row: seconds since the first row's timestamp; NaT when either
\* timestamp is missing
TdOf(row, first) ==
  IF row.ts_missing \/ first.ts_missing
  THEN [nat |-> TRUE, v |-> 0]
  ELSE [nat |-> FALSE, v |-> row.timestamp - first.timestamp]

\* the rows with their td column (which is also their index)
WithTd(rows) ==
  [i \in 1..Len(rows) |->
     [pos |-> i, timestamp |-> rows[i].timestamp,
      td |-> TdOf(rows[i], rows[1])]]

\* order of sort_index: ascending, NaT last
SortsBefore(a, b) == ~a.nat /\ (b.nat \/ a.v < b.v)

\* index comparison a <= b: False when either side is NaT
IndexLeq(a, b) == ~a.nat /\ ~b.nat /\ a.v <= b.v

RECURSIVE InsertSorted(_, _)
InsertSorted(sorted, row) ==
  IF sorted = <<>> THEN <<row>>
  ELSE IF SortsBefore(row.td, Head(sorted).td)
       THEN <<row>> \o sorted
       ELSE <<Head(sorted)>> \o InsertSorted(Tail(sorted), row)

\* data.sort_index(): rows of equal index keep their order
RECURSIVE sort_index(_)
sort_index(rows) ==
  IF rows = <<>> THEN <<>>
  ELSE InsertSorted(sort_index(SubSeq(rows, 1, Len(rows) - 1)),
                    rows[Len(rows)])

\* all(data.index[:-1] <= data.index[1:])
IndexIsSorted(rows) ==
  \A i \in 1..(Len(rows) - 1) : IndexLeq(rows[i].td, rows[i + 1].td)

\* lines 147-161; date_series.iloc[0] raises on a frame without rows
clean_accelerometer_data(rows) ==
  LET kept == dropna(rows)
  IN IF kept = <<>> THEN [pc |-> "raised", data |-> <<>>]
     ELSE LET sorted == sort_index(WithTd(kept))
          IN IF IndexIsSorted(sorted)
             THEN [pc |-> "returned", data |-> sorted]
             ELSE [pc |-> "exit", data |-> <<>>]

InitClean ==
  /\ orientation = "y"
  /\ arg = "clean"
  /\ frame = EmptyFrame
  /\ \E len \in 0..MaxRawRows : raw \in [1..len -> RawRows]
  /\ cleaned = <<>>
  /\ pc = "clean"
  /\ InitLocals
  /\ call = 1 /\ first_result = NoResult
  /\ oracle = <<>>
  /\ BatchIdle

Clean ==
  /\ pc = "clean"
  /\ LET r == clean_accelerometer_data(raw)
     IN pc' = r.pc /\ cleaned' = r.data
  /\ performed' = performed \cup {"clean_accelerometer_data"}
  /\ UNCHANGED <<inVars, frame, rotVars, segVars, k, winVars, ts, wret,
                 meanVars, result, callVars, oracle, raw, batchVars>>

NextClean == Clean

SpecClean == InitClean /\ [][NextClean]_vars

\* ------------------------------------------ parallel_func_apply runs
\* most rows of the data frame given to parallel_func_apply
MaxRows == 5
\* largest chunksize argument (number of partitions)
MaxChunks == 5
\* largest no_of_processors argument
MaxProcs == 2

Min(a, b) == IF a < b THEN a ELSE b

\* np.array_split(df, sections): sections chunks in row order; the first
\* len % sections chunks have one row more than the others
np_array_split(rows, sections) ==
  LET each == Len(rows) \div sections
      extras == Len(rows) % sections
  IN [c \in 1..sections |->
        LET first == (c - 1) * each + Min(c - 1, extras)
            size == each + (IF c <= extras THEN 1 ELSE 0)
        IN SubSeq(rows, first + 1, first + size)]

\* the wrapper function given as func: a result row per row of its chunk
func(chunk) ==
  [i \in 1..Len(chunk) |-> [row |-> chunk[i], features |-> "computed"]]

\* pool.map cuts its iterable into task batches of
\* ceil(len(iterable) / (4 * len(pool))) consecutive items
MapBatch(items, procs) ==
  LET q == items \div (4 * procs)
  IN IF items % (4 * procs) # 0 THEN q + 1 ELSE q

NumBatches(items, procs) ==
  IF items = 0 THEN 0
  ELSE (items + MapBatch(items, procs) - 1) \div MapBatch(items, procs)

\* the chunk numbers of task batch b, ascending
BatchFirst(b, items, procs) == (b - 1) * MapBatch(items, procs) + 1
BatchLast(b, items, procs) == Min(b * MapBatch(items, procs), items)

IdleWorker == [batch |-> 0, pos |-> 0, stalled |-> FALSE]

\* mutant: the results are listed as they arrive (imap_unordered)
MapOrderUnordered(items, arrived) == arrived

\* pool.map returns the results in the order of its iterable, whatever the
\* order in which the calls finished
MapOrder(items, arrived) == [c \in 1..items |-> c]

\* mutant: map returns as soon as the first chunk's result is in
MapReadyFirst(values, items) == items = 0 \/ 1 \in DOMAIN values

\* pool.map blocks until the result of every item is in
MapReady(values, items) == DOMAIN values = 1..items

\* pd.concat of the results listed in order
RECURSIVE pd_concat(_, _)
pd_concat(values, order) ==
  IF order = <<>> THEN <<>>
  ELSE (IF Head(order) \in DOMAIN values THEN values[Head(order)] ELSE <<>>)
       \o pd_concat(values, Tail(order))

InitBatch ==
  /\ orientation = "y"
  /\ arg = "batch"
  /\ frame = EmptyFrame
  /\ \E rows \in 0..MaxRows : df = Iota(rows)
  /\ chunksize \in 1..MaxChunks
  /\ no_of_processors \in 1..MaxProcs
  /\ df_split = <<>> /\ next_task = 0 /\ worker = <<>>
  /\ map_values = <<>> /\ completion = <<>> /\ out = <<>>
  /\ pc = "split"
  /\ InitLocals
  /\ call = 1 /\ first_result = NoResult
  /\ oracle = <<>>
  /\ CleanIdle

batchFixed == <<inVars, frame, performed, rotVars, segVars, k, winVars, ts,
                wret, meanVars, result, callVars, oracle, cleanVars, df,
                chunksize, no_of_processors>>

\* lines 314-316: the split and the creation of the pool
Split ==
  /\ pc = "split"
  /\ df_split' = np_array_split(df, chunksize)
  /\ worker' = [w \in 1..no_of_processors |-> IdleWorker]
  /\ pc' = "map"
  /\ UNCHANGED <<batchFixed, next_task, map_values, completion, out>>

\* line 317: an idle worker takes the next task batch
Take(w) ==
  /\ pc = "map"
  /\ worker[w].batch = 0
  /\ next_task < NumBatches(Len(df_split), no_of_processors)
  /\ next_task' = next_task + 1
  /\ worker' =
       [worker EXCEPT ![w] = [IdleWorker EXCEPT !.batch = next_task + 1]]
  /\ UNCHANGED <<batchFixed, pc, df_split, map_values, completion, out>>

\* the chunk a busy worker's call of func is working on
CurrentChunk(w) ==
  BatchFirst(worker[w].batch, Len(df_split), no_of_processors) + worker[w].pos

\* line 317: a worker's call of func on its current chunk finishes
Finish(w) ==
  /\ pc = "map"
  /\ worker[w].batch # 0 /\ ~worker[w].stalled
  /\ LET c == CurrentChunk(w)
     IN /\ map_values' = (c :> func(df_split[c])) @@ map_values
        /\ completion' = Append(completion, c)
        /\ worker' =
             [worker EXCEPT ![w] =
                IF c = BatchLast(worker[w].batch, Len(df_split),
                                 no_of_processors)
                THEN IdleWorker
                ELSE [worker[w] EXCEPT !.pos = worker[w].pos + 1]]
  /\ UNCHANGED <<batchFixed, pc, df_split, next_task, out>>

\* line 317: a worker's call of func never finishes (no timeout exists)
Stall(w) ==
  /\ pc = "map"
  /\ worker[w].batch # 0 /\ ~worker[w].stalled
  /\ worker' = [worker EXCEPT ![w].stalled = TRUE]
  /\ UNCHANGED <<batchFixed, pc, df_split, next_task, map_values, completion,
                 out>>

\* lines 317-321: map returns, the results are concatenated, the pool is
\* closed and joined
Return ==
  /\ pc = "map"
  /\ MapReady(map_values, Len(df_split))
  /\ out' = pd_concat(map_values, MapOrder(Len(df_split), completion))
  /\ pc' = "returned"
  /\ UNCHANGED <<batchFixed, df_split, next_task, worker, map_values,
                 completion>>

NextBatch ==
  \/ Split
  \/ \E w \in 1..no_of_processors : Take(w)
  \/ \E w \in 1..no_of_processors : Finish(w)
  \/ \E w \in 1..no_of_processors : Stall(w)
  \/ Return

SpecBatch == InitBatch /\ [][NextBatch]_vars

\* ============================================================ claims
Done == pc = "done"
HasRecord == result.kind = "record"
Feature(key) == result.dict[key]

\* C1: called with the sentinel "#ERROR" (any orientation), pipeline returns
\* the sentinel unchanged: it opens no file, performs no rotation
\* segmentation, overlay, bout extraction or step counting, and raises nothing.
C1_SentinelReturnedUnchanged ==
  arg = "sentinel" =>
    /\ pc \in {"start", "done"}
    /\ Done => result = SentinelResult
    /\ performed = {}
    /\ rotation_ts = <<>> /\ data = <<>> /\ walking_seqs = <<>>
    /\ heel_strikes = <<>> /\ mean_arr_wchunk = <<>>
    /\ oracle = <<>>

C1_Witness == arg = "sentinel" /\ Done /\ orientation = "x"

\* C2: for every valid stream with increasing td, each of the six features
\* of the returned record is finite and non-negative, also when the stream
\* yields no walking bout.
C2_FeaturesFiniteNonNegative ==
  (Done /\ HasRecord) =>
    \A key \in DOMAIN result.dict :
      IsFinite(Feature(key)) /\ Feature(key).n >= 0

\* C3: a record returned for a non-sentinel input has exactly the six feature
\* keys, with and without qualifying turns.
C3_ExactlySixKeys ==
  /\ HasRecord => DOMAIN result.dict = FeatureKeys
  /\ (Done /\ arg \in {"frame", "path"}) => HasRecord

C3_Witness ==
  Done /\ HasRecord /\ rotation_occurences = <<>> /\ rotation_ts # <<>>

\* the 0-based timeline indices of bout g, read as the range it spans
BoutFirst(g) == walking_seqs[g][1]
BoutLast(g) == walking_seqs[g][Len(walking_seqs[g])]
BoutsOf(i) ==
  {g \in 1..Len(walking_seqs) : BoutFirst(g) <= i /\ i <= BoutLast(g)}

\* C4: every index of the merged timeline is either turning (aucXt >= 2.0)
\* and in no bout, or walking (aucXt < 2.0) and in exactly one bout; a bout
\* is a run of consecutive indices and no two bouts are adjacent.
C4_TimelinePartition ==
  (pc = "bout_loop" /\ k = 1) =>
    /\ \A g \in 1..Len(walking_seqs) :
         /\ Len(walking_seqs[g]) >= 1
         /\ BoutFirst(g) >= 0 /\ BoutLast(g) <= Len(data) - 1
         /\ \A p \in 1..(Len(walking_seqs[g]) - 1) :
              walking_seqs[g][p + 1] = walking_seqs[g][p] + 1
         /\ g < Len(walking_seqs) => BoutFirst(g + 1) > BoutLast(g) + 1
    /\ \A i \in 0..(Len(data) - 1) :
         IF data[i + 1].aucXt >= AucXtTwo
         THEN BoutsOf(i) = {}
         ELSE Cardinality(BoutsOf(i)) = 1

C4_Witness ==
  /\ pc = "bout_loop" /\ k = 1
  /\ Len(walking_seqs) >= 2
  /\ \E i \in 1..Len(data) : data[i].aucXt = AucXtTwo
  /\ \E i \in 1..Len(data) : data[i].aucXt > AucXtTwo

\* the TurnEvents whose aucXt is strictly greater than 2.0
Qualifying == {j \in 1..Len(rotation_ts) : rotation_ts[j].aucXt > AucXtTwo}

RECURSIVE DurationSum(_)
DurationSum(js) ==
  IF js = {} THEN 0
  ELSE LET j == CHOOSE c \in js : TRUE
       IN rotation_ts[j].turn_duration + DurationSum(js \ {j})

\* C5: no_of_turns is the number of TurnEvents with aucXt > 2.0 (an event at
\* exactly 2.0 is not a turn), and mean/min/max_duration are the mean, the
\* minimum and the maximum of the durations of exactly those events.
C5_TurnStatistics ==
  /\ HasRecord =>
       Feature("rotation.no_of_turns") = Num(Cardinality(Qualifying), 1)
  /\ (HasRecord /\ Qualifying # {}) =>
    LET cnt == Cardinality(Qualifying)
        mean == Feature("rotation.mean_duration")
        min == Feature("rotation.min_duration")
        max == Feature("rotation.max_duration")
    IN /\ Feature("rotation.no_of_turns") = Num(cnt, 1)
       /\ IsFinite(mean) /\ mean.n * cnt = DurationSum(Qualifying) * mean.d
       /\ \E j \in Qualifying : min = Num(rotation_ts[j].turn_duration, 1)
       /\ \A j \in Qualifying : FLeq(min, Num(rotation_ts[j].turn_duration, 1))
       /\ \E j \in Qualifying : max = Num(rotation_ts[j].turn_duration, 1)
       /\ \A j \in Qualifying : FLeq(Num(rotation_ts[j].turn_duration, 1), max)
       /\ FLeq(min, mean) /\ FLeq(mean, max)
       /\ cnt = 1 => (min = mean /\ mean = max)

C5_Witness ==
  /\ Done /\ HasRecord
  /\ \E j \in 1..Len(rotation_ts) : rotation_ts[j].aucXt = AucXtTwo
  /\ \E i, j \in Qualifying :
       rotation_ts[i].turn_duration # rotation_ts[j].turn_duration

\* C6: when no TurnEvent has aucXt > 2.0, in particular when the filtered
\* rotation signal has no zero-crossing, the rotation block is all zeros and
\* pipeline does not raise.
C6_ZeroFilledRotationBlock ==
  /\ (HasRecord /\ Qualifying = {}) =>
       /\ Feature("rotation.no_of_turns") = Zero
       /\ Feature("rotation.mean_duration") = Zero
       /\ Feature("rotation.min_duration") = Zero
       /\ Feature("rotation.max_duration") = Zero
  /\ arg \in {"frame", "path"} => pc # "raised"

C6_Witness ==
  /\ Done /\ HasRecord
  /\ Len(frame.rot_val) >= 2 /\ detect_zcr(rot_column) = <<>>
  /\ rotation_ts = <<>>

\* window j lies in a run of at least zero_runs_cutoff consecutive zero-rate
\* windows: some stretch of zero_runs_cutoff zero-rate windows contains it
InLongZeroRun(j) ==
  \E a \in (j - zero_runs_cutoff + 1)..j :
    /\ a >= 1 /\ a + zero_runs_cutoff - 1 <= Len(heel_strikes)
    /\ \A i \in a..(a + zero_runs_cutoff - 1) : heel_strikes[i] = 0

KeptWindows == {j \in 1..Len(heel_strikes) : ~InLongZeroRun(j)}

\* C7: zero-run filtering with cutoff 5 removes every window of every
\* maximal zero-rate run of length >= 5, keeps every other window (non-zero
\* rate, or zero rate in a run of length <= 4) and keeps their order, also
\* with several such runs.
C7_ZeroRunFiltering ==
  pc = "subset_done" =>
    LET kept == KeptWindows
    IN /\ Len(ts) = Cardinality(kept)
       /\ \A r \in 1..Len(ts) :
            /\ ts[r].index = r - 1
            /\ \E j \in kept :
                 /\ ts[r].time = time[j]
                 /\ ts[r].heel_strikes = StrikeRate(heel_strikes[j])
       /\ \A r \in 1..(Len(ts) - 1) : ts[r].time < ts[r + 1].time

\* two long runs, a short run and two non-zero windows: three windows stay
C7_Witness ==
  /\ pc = "subset_done"
  /\ heel_strikes = <<0, 1, 0, 0, 0, 0, 0, 1, 0, 0, 0, 0, 0>>
  /\ Len(ts) = 3
  /\ ts[1].time = time[1] /\ ts[2].time = time[2] /\ ts[3].time = time[8]

\* the number of m >= 0 with window_size + 1 + step_size * m < len
ExpectedWindows(len) ==
  IF len <= window_size + 1 THEN 0
  ELSE (len - window_size - 2) \div step_size + 1

\* C8: the windowed estimator returns exactly 0, never NaN, whenever no
\* window remains after zero-run filtering: for a bout too short for a
\* window and for a bout all of whose windows were removed as a zero-run
\* (such as the 1000-sample constant-zero bout).
C8_NoWindowLeftGivesZero ==
  pc = "returned" =>
    /\ IsFinite(wret)
    /\ Len(ts) = 0 => wret = Zero
    /\ n < window_size => (time = <<>> /\ Len(ts) = 0 /\ wret = Zero)
    /\ (Len(time) >= zero_runs_cutoff
        /\ \A j \in 1..Len(time) : heel_strikes[j] = 0)
         => (Len(ts) = 0 /\ wret = Zero)

C8_Witness ==
  /\ pc = "returned"
  /\ n = ZeroBoutLen /\ frame.accel_zero
  /\ Len(time) = ExpectedWindows(n)
  /\ \A j \in 1..Len(time) : heel_strikes[j] = 0
  /\ Len(ts) = 0 /\ wret = Zero

WindowKey(j) == <<"window", orientation, bout_lo, time[j] - window_size>>
BoutKey(b) == <<"bout", UnwindowedAxis(orientation), BoutFirst(b), BoutLast(b)>>

\* C9: a failure of the heel-strike detector is absorbed: the failing window
\* is recorded with 0 and the later windows of the bout are still processed,
\* a failing whole-bout call gives that bout the unwindowed rate 0, and
\* pipeline does not raise.
C9_DetectorFailureAbsorbed ==
  /\ arg \in {"frame", "path"} => pc # "raised"
  /\ Len(heel_strikes) = Len(time)
  /\ \A j \in 1..Len(time) :
       /\ WindowKey(j) \in DOMAIN oracle
       /\ oracle[WindowKey(j)].r = "fail" => heel_strikes[j] = 0
  /\ pc = "unwindowed" => Len(time) = ExpectedWindows(n)
  /\ \A b \in 1..Len(mean_arr_no_wchunk) :
       /\ BoutKey(b) \in DOMAIN oracle
       /\ oracle[BoutKey(b)].r = "fail" => mean_arr_no_wchunk[b] = Zero

C9_Witness ==
  /\ Done /\ HasRecord
  /\ Len(time) >= 2
  /\ oracle[WindowKey(1)].r = "fail"
  /\ heel_strikes[2] >= 1
  /\ \E b \in 1..Len(mean_arr_no_wchunk) : oracle[BoutKey(b)].r = "fail"

\* C10: pipeline is deterministic: a second invocation on the same input
\* and orientation, with a deterministic detector, returns the record the
\* first returned, and no step of pipeline modifies the caller's frame.
C10_Deterministic ==
  [][/\ frame' = frame
     /\ (pc' = "done" /\ call' = 2) => result' = first_result']_vars

C10_Witness ==
  /\ Done /\ call = 2 /\ HasRecord /\ arg = "frame"
  /\ Len(walking_seqs) >= 2 /\ Len(time) >= 1
  /\ Qualifying # {}
  /\ rot_column # frame.rot_val

\* the timestamps of the rows clean_accelerometer_data keeps arrive out of
\* order: some row has a smaller timestamp than the row before it
OutOfOrder(rows) ==
  \E i \in 1..(Len(rows) - 1) :
    /\ ~rows[i].ts_missing /\ ~rows[i + 1].ts_missing
    /\ rows[i + 1].timestamp < rows[i].timestamp

\* C11: clean_accelerometer_data never returns a stream whose td decreases
\* between consecutive samples; a recording whose timestamps arrive out of
\* order is aborted (fatal exit), not returned.
C11_UnsortedStreamAborts ==
  arg = "clean" =>
    /\ pc = "returned" =>
         \A i \in 1..(Len(cleaned) - 1) :
           IndexLeq(cleaned[i].td, cleaned[i + 1].td)
    /\ (pc \in {"returned", "exit"} /\ OutOfOrder(dropna(raw))) => pc = "exit"

BatchReturned == arg = "batch" /\ pc = "returned"

\* two calls on non-empty chunks finished in the opposite of request order
FinishedOutOfOrder ==
  \E i, j \in 1..Len(completion) :
    /\ i < j /\ completion[i] > completion[j]
    /\ df_split[completion[i]] # <<>> /\ df_split[completion[j]] # <<>>

\* C12 as stated: the merged output of parallel_func_apply lists the chunk
\* results in the order in which the workers completed them.
C12_CompletionOrderMerge ==
  BatchReturned => out = pd_concat(map_values, completion)

\* C12 as amended: the merged output lists the chunk results in the original
\* chunk (request) order whatever the order in which the workers finished,
\* so the output rows are in the order of the input rows.
C12_RequestOrderMerge ==
  BatchReturned =>
    /\ Len(out) = Len(df)
    /\ \A i \in 1..Len(out) : out[i] = [row |-> df[i], features |-> "computed"]

C12_Witness == BatchReturned /\ FinishedOutOfOrder

\* the chunks that contain row position i of df
ChunksWithRow(i) ==
  {c \in 1..Len(df_split) :
     \E j \in 1..Len(df_split[c]) : df_split[c][j] = df[i]}

\* the calls of func on chunk c: finished or in progress
CallsOn(c) ==
  Cardinality({i \in 1..Len(completion) : completion[i] = c})
  + Cardinality({w \in DOMAIN worker :
                   worker[w].batch # 0 /\ CurrentChunk(w) = c})

RECURSIVE RowCount(_)
RowCount(chunks) ==
  IF chunks = <<>> THEN 0 ELSE Len(Head(chunks)) + RowCount(Tail(chunks))

\* C13: the input rows are partitioned into chunks (every row in exactly one
\* chunk), each chunk is processed by exactly one worker call, the result is
\* concatenated only after every chunk's call has completed and holds every
\* chunk's result exactly once, under every interleaving; with a worker that
\* never finishes, parallel_func_apply never returns.
C13_PartitionAndJoin ==
  (arg = "batch" /\ pc # "split") =>
    /\ Len(df_split) = chunksize
    /\ RowCount(df_split) = Len(df)
    /\ \A i \in 1..Len(df) : Cardinality(ChunksWithRow(i)) = 1
    /\ \A c \in 1..Len(df_split) : CallsOn(c) <= 1
    /\ pc = "returned" =>
         /\ \A c \in 1..Len(df_split) :
              /\ Cardinality({i \in 1..Len(completion) : completion[i] = c}) = 1
              /\ \A j \in 1..Len(df_split[c]) :
                   Cardinality({o \in 1..Len(out) :
                                  out[o].row = df_split[c][j]}) = 1
         /\ Len(out) = Len(df)
         /\ \A w \in DOMAIN worker : worker[w].batch = 0
    /\ (\E w \in DOMAIN worker : worker[w].stalled) => pc # "returned"

C13_Witness ==
  /\ BatchReturned /\ FinishedOutOfOrder
  /\ \E c, d \in 1..Len(df_split) : Len(df_split[c]) # Len(df_split[d])
  /\ MapBatch(Len(df_split), no_of_processors) = 1

\* the zero-crossing indices (from 0) of the filtered rotation column
ZcrList == detect_zcr(rot_column)

\* interval j of the walk over the crossings: the samples from the previous
\* crossing + 1 (index 0 for the first) up to and including crossing j
IntervalStart(j) == IF j = 1 THEN 0 ELSE ZcrList[j - 1] + 1
IntervalEnd(j) == ZcrList[j]
IntervalLen(j) == IntervalEnd(j) - IntervalStart(j) + 1

\* the intervals of at least 2 samples, in order
LongIntervals ==
  SelectSeq([j \in 1..Len(ZcrList) |-> j], LAMBDA j : IntervalLen(j) >= 2)

Rotated == "calculate_rotation" \in performed

\* C14: for every TurnEvent, duration is the td of the last sample of the
\* interval's sub-series minus the td of its first sample, and aucXt is
\* |AUC| times that duration.
C14_DurationSpansSubSeries ==
  Rotated =>
    \A e \in 1..Min(Len(rotation_ts), Len(LongIntervals)) :
      LET j == LongIntervals[e]
          span == frame.rot_td[IntervalEnd(j) + 1]
                  - frame.rot_td[IntervalStart(j) + 1]
      IN /\ rotation_ts[e].turn_duration = span
         /\ rotation_ts[e].aucXt = rotation_ts[e].auc * span

\* C15: calculate_rotation walks the crossings in order over disjoint,
\* contiguous intervals; an interval of fewer than 2 samples emits no
\* TurnEvent and still advances the start, every interval of >= 2 samples
\* emits exactly one TurnEvent, the samples after the last crossing none.
C15_IntervalWalk ==
  Rotated =>
    /\ Len(rotation_ts) = Len(LongIntervals)
    /\ \A e \in 1..Len(rotation_ts) :
         LET j == LongIntervals[e]
             s == IntervalStart(j)
             i == IntervalEnd(j)
         IN /\ rotation_ts[e].td = frame.rot_td[i + 1]
            /\ rotation_ts[e].auc =
                 Abs(Trapz2(Slice(frame.rot_td, s, i + 1),
                            Slice(rot_column, s, i + 1)))
            /\ rotation_ts[e].turn_duration =
                 frame.rot_td[i + 2] - frame.rot_td[s + 1]
    /\ \A e \in 1..(Len(rotation_ts) - 1) :
         rotation_ts[e].td < rotation_ts[e + 1].td
    /\ \A e \in 1..Len(rotation_ts) :
         rotation_ts[e].td < frame.rot_td[Len(frame.rot_td)]

\* a short interval between two long ones, and samples after the last
\* crossing
C15_Witness ==
  /\ Rotated /\ Len(rotation_ts) >= 2
  /\ \E j \in 2..(Len(ZcrList) - 1) :
       /\ IntervalLen(j) = 1
       /\ IntervalLen(j - 1) >= 2 /\ IntervalLen(j + 1) >= 2
  /\ ZcrList[Len(ZcrList)] + 1 < Len(rot_column)

\* create_overlay_data has just returned the merged timeline
Overlaid == pc = "bout_loop" /\ k = 1

\* timeline index i (from 1) has the td of a TurnEvent
Matched(i) ==
  \E e \in 1..Len(rotation_ts) : rotation_ts[e].td = frame.accel_td[i]

MatchedSet == {j \in 1..Len(frame.accel_td) : Matched(j)}

EventAt(i) ==
  rotation_ts[CHOOSE e \in 1..Len(rotation_ts) :
                rotation_ts[e].td = frame.accel_td[i]]

\* the matched indices at or after i, out of the matched indices m
MatchedFrom(m, i) == {j \in m : j >= i}

NearestMatched(m, i) ==
  CHOOSE j \in MatchedFrom(m, i) : \A o \in MatchedFrom(m, i) : j <= o

HasValuesOf(i, j) ==
  /\ data[i].aucXt = EventAt(j).aucXt
  /\ data[i].turn_duration = EventAt(j).turn_duration

HasDefault(i) == data[i].aucXt = 0 /\ data[i].turn_duration = 0

\* one row per acceleration sample, in the acceleration stream's order, none
\* with a missing value
OneRowPerSample ==
  /\ Len(data) = Len(frame.accel_td)
  /\ \A i \in 1..Len(data) :
       data[i].td = frame.accel_td[i] /\ ~data[i].isna

ChosenAxisKey(b) == <<"bout", orientation, BoutFirst(b), BoutLast(b)>>

\* C17: for every bout the unwindowed estimator runs the heel-strike
\* detector over the chosen axis (pipeline's orientation argument, the axis
\* of the windowed estimator) and divides the strike count by the bout's
\* duration td[last] - td[first].
C17_UnwindowedOnChosenAxis ==
  \A b \in 1..Len(mean_arr_no_wchunk) :
    LET duration == data[BoutLast(b) + 1].td - data[BoutFirst(b) + 1].td
    IN /\ ChosenAxisKey(b) \in DOMAIN oracle
       /\ oracle[ChosenAxisKey(b)].r = "ok" =>
            mean_arr_no_wchunk[b] =
              FloatDiv(oracle[ChosenAxisKey(b)].c, duration)

\* the detector input of window number j (from 1): bout positions
\* [1 + 50(j-1), 257 + 50(j-1))
WindowAt(j) ==
  <<"window", orientation, bout_lo, 1 + step_size * (j - 1)>>

WindowsInPlace ==
  arg = "direct" =>
    /\ Len(time) = Len(heel_strikes)
    /\ Cardinality(DOMAIN oracle) = Len(time)
    /\ \A j \in 1..Len(time) :
         /\ time[j] = window_size + 1 + step_size * (j - 1)
         /\ time[j] < n
         /\ WindowAt(j) \in DOMAIN oracle
         /\ 1 + step_size * (j - 1) + window_size <= n
    /\ pc = "returned" =>
         /\ Len(time) = ExpectedWindows(n)
         /\ n \in {window_size, window_size + 1} => Len(time) = 0

\* C18: for a bout of n samples the window loop terminates with exactly one
\* WindowObservation per k >= 0 with 257 + 50k < n; window k covers the 256
\* positions [1 + 50k, 257 + 50k), inside the bout, consecutive windows 50
\* samples apart; a bout of 256 or 257 samples yields no window.
C18_WindowLoop == []WindowsInPlace /\ <>(pc = "returned")

C18_Witness ==
  /\ arg = "direct" /\ pc = "returned"
  /\ Len(time) >= 3
  /\ time[Len(time)] + 1 = n
  /\ time[2] - time[1] = step_size

====
